---- MODULE Spec2Model ----
(***************************************************************************)
(* Model of bedrock_prompts_mcp_server.py: the batch orchestrator          *)
(* (batch_invoke_prompt) as a state machine of one collecting thread and   *)
(* a bounded pool of workers, and the single-call operations as pure       *)
(* operators over Python values.                                           *)
(*                                                                         *)
(* Python values: a dict is a record/function (Get is dict.get), a list is *)
(* a sequence, a str that the code scans is a sequence of one-character    *)
(* strings, any other str is a TLA+ string.  The outcome of a call is      *)
(* Return(v) or Raise(e).                                                  *)
(***************************************************************************)
EXTENDS Integers, Sequences, FiniteSets, TLC

\* ---------------------------------------------------------------- bounds
MaxTasks == 3
MaxWorkers == 2

\* ------------------------------------------------------- Python helpers
Return(v) == [raised |-> FALSE, val |-> v]
Raise(e) == [raised |-> TRUE, exc |-> e]

\* dict.get(k, default)
Get(d, k, default) == IF k \in DOMAIN d THEN d[k] ELSE default

\* {"success": False, "error": str(e)}
ErrorEnvelope(e) == [success |-> FALSE, error |-> e]

\* An absent value (Python's None)
None == [none |-> TRUE]

\* {} : the dict with no key
EmptyDict == [k \in {} |-> None]

\* ------------------------------------------------------------- strings
UpperLetters == <<"A", "B", "C", "D", "E", "F", "G", "H", "I", "J", "K", "L", "M", "N", "O", "P", "Q", "R", "S", "T", "U", "V", "W", "X", "Y", "Z">>
LowerLetters == <<"a", "b", "c", "d", "e", "f", "g", "h", "i", "j", "k", "l", "m", "n", "o", "p", "q", "r", "s", "t", "u", "v", "w", "x", "y", "z">>

\* str.lower(), one character
LowerChar(c) ==
    IF \E i \in 1..26 : UpperLetters[i] = c
    THEN LowerLetters[CHOOSE i \in 1..26 : UpperLetters[i] = c]
    ELSE c

\* str.lower()
Lower(s) == [i \in 1..Len(s) |-> LowerChar(s[i])]

\* `sub in s` for two str
Contains(s, sub) ==
    \E i \in 1..(Len(s) - Len(sub) + 1) : SubSeq(s, i, i + Len(sub) - 1) = sub

\* ------------------------------------------------- model family classifier
M_claude == <<"c", "l", "a", "u", "d", "e">>
M_anthropic == <<"a", "n", "t", "h", "r", "o", "p", "i", "c">>
M_titan == <<"t", "i", "t", "a", "n">>
M_llama == <<"l", "l", "a", "m", "a">>
M_meta == <<"m", "e", "t", "a">>
M_mistral == <<"m", "i", "s", "t", "r", "a", "l">>
M_cohere == <<"c", "o", "h", "e", "r", "e">>
M_ai21 == <<"a", "i", "2", "1">>
M_jurassic == <<"j", "u", "r", "a", "s", "s", "i", "c">>

\* A classifier that looks for titan before claude
get_model_type_TitanFirst(model_id) ==
    LET model_id_lower == Lower(model_id) IN
    IF Contains(model_id_lower, M_titan) THEN "titan"
    ELSE IF Contains(model_id_lower, M_claude) \/ Contains(model_id_lower, M_anthropic)
    THEN "claude"
    ELSE IF Contains(model_id_lower, M_llama) \/ Contains(model_id_lower, M_meta)
    THEN "llama"
    ELSE IF Contains(model_id_lower, M_mistral) THEN "mistral"
    ELSE IF Contains(model_id_lower, M_cohere) THEN "cohere"
    ELSE IF Contains(model_id_lower, M_ai21) \/ Contains(model_id_lower, M_jurassic)
    THEN "ai21"
    ELSE "unknown"

get_model_type(model_id) ==
    LET model_id_lower == Lower(model_id) IN
    IF Contains(model_id_lower, M_claude) \/ Contains(model_id_lower, M_anthropic)
    THEN "claude"
    ELSE IF Contains(model_id_lower, M_titan) THEN "titan"
    ELSE IF Contains(model_id_lower, M_llama) \/ Contains(model_id_lower, M_meta)
    THEN "llama"
    ELSE IF Contains(model_id_lower, M_mistral) THEN "mistral"
    ELSE IF Contains(model_id_lower, M_cohere) THEN "cohere"
    ELSE IF Contains(model_id_lower, M_ai21) \/ Contains(model_id_lower, M_jurassic)
    THEN "ai21"
    ELSE "unknown"

\* ------------------------------------------------------ response parsers
\* response_body.get("content", [{}])[0].get("text", "")
parse_response_claude(response_body) ==
    LET content == Get(response_body, "content", <<EmptyDict>>) IN
    IF Len(content) = 0
    THEN Raise("IndexError")
    ELSE Return(Get(content[1], "text", ""))

parse_response_titan(response_body) ==
    LET results_ == Get(response_body, "results", <<EmptyDict>>) IN
    IF Len(results_) > 0
    THEN Return(Get(results_[1], "outputText", ""))
    ELSE Return("")

parse_response_llama(response_body) ==
    Return(Get(response_body, "generation", ""))

parse_response_mistral(response_body) ==
    LET outputs == Get(response_body, "outputs", <<EmptyDict>>) IN
    IF Len(outputs) > 0
    THEN Return(Get(outputs[1], "text", ""))
    ELSE Return("")

parse_response_cohere(response_body) ==
    LET generations == Get(response_body, "generations", <<EmptyDict>>) IN
    IF Len(generations) > 0
    THEN Return(Get(generations[1], "text", ""))
    ELSE Return("")

parse_response_ai21(response_body) ==
    LET completions == Get(response_body, "completions", <<EmptyDict>>) IN
    IF Len(completions) > 0
    THEN Return(Get(Get(completions[1], "data", EmptyDict), "text", ""))
    ELSE Return("")

\* A dispatch that gives an unknown family no parser at all
parse_model_response_UnknownEmpty(model_id, response_body) ==
    LET model_type == get_model_type(model_id) IN
    CASE model_type = "claude" -> parse_response_claude(response_body)
      [] model_type = "titan" -> parse_response_titan(response_body)
      [] model_type = "llama" -> parse_response_llama(response_body)
      [] model_type = "mistral" -> parse_response_mistral(response_body)
      [] model_type = "cohere" -> parse_response_cohere(response_body)
      [] model_type = "ai21" -> parse_response_ai21(response_body)
      [] OTHER -> Return("")

\* parsers.get(model_type, parse_response_claude)(response_body)
parse_model_response(model_id, response_body) ==
    LET model_type == get_model_type(model_id) IN
    CASE model_type = "claude" -> parse_response_claude(response_body)
      [] model_type = "titan" -> parse_response_titan(response_body)
      [] model_type = "llama" -> parse_response_llama(response_body)
      [] model_type = "mistral" -> parse_response_mistral(response_body)
      [] model_type = "cohere" -> parse_response_cohere(response_body)
      [] model_type = "ai21" -> parse_response_ai21(response_body)
      [] OTHER -> parse_response_claude(response_body)

\* --------------------------------------------------------- truthiness
\* `not v` for a value that is None or a dict
Falsy(v) == v = None \/ DOMAIN v = {}

\* ------------------------------------------------------ request builders
\* A configuration value is a number [n |-> thousandths], a str holding an
\* integer [str_int |-> thousandths], a str holding a fraction
\* [str_frac |-> thousandths], or a str that is no number [bad |-> TRUE].
Trunc(n) == IF n >= 0 THEN n \div 1000 ELSE -((-n) \div 1000)

\* int(x)
PyInt(x) ==
    IF "n" \in DOMAIN x THEN Return(Trunc(x.n))
    ELSE IF "str_int" \in DOMAIN x THEN Return(Trunc(x.str_int))
    ELSE Raise("ValueError")

\* float(x), in thousandths
PyFloat(x) ==
    IF "n" \in DOMAIN x THEN Return(x.n)
    ELSE IF "str_int" \in DOMAIN x THEN Return(x.str_int)
    ELSE IF "str_frac" \in DOMAIN x THEN Return(x.str_frac)
    ELSE Raise("ValueError")

\* The three coercions every builder starts with:
\* int(cfg.get("maxTokens", 2000)), float(cfg.get("temperature", 1.0)),
\* float(cfg.get("topP", 0.999))
Coerced(inference_config) ==
    LET mt == PyInt(Get(inference_config, "maxTokens", [n |-> 2000000]))
        te == PyFloat(Get(inference_config, "temperature", [n |-> 1000]))
        tp == PyFloat(Get(inference_config, "topP", [n |-> 999]))
    IN  IF mt.raised THEN mt
        ELSE IF te.raised THEN te
        ELSE IF tp.raised THEN tp
        ELSE Return([maxTokens |-> mt.val, temperature |-> te.val, topP |-> tp.val])

build_request_body_claude(filled_template, inference_config, additional_fields) ==
    LET c == Coerced(inference_config)
        top_k == IF "top_k" \in DOMAIN additional_fields
                 THEN PyInt(additional_fields["top_k"])
                 ELSE Return(0)
        stop_sequences == Get(inference_config, "stopSequences", <<>>)
    IN  IF c.raised THEN c
        ELSE IF top_k.raised THEN top_k
        ELSE Return(
            (IF Len(stop_sequences) > 0
             THEN [stop_sequences |-> stop_sequences] ELSE EmptyDict)
            @@ (IF "top_k" \in DOMAIN additional_fields
                THEN [top_k |-> top_k.val] ELSE EmptyDict)
            @@ [anthropic_version |-> "bedrock-2023-05-31",
                max_tokens |-> c.val.maxTokens,
                temperature |-> c.val.temperature,
                top_p |-> c.val.topP,
                messages |-> <<[role |-> "user", content |-> filled_template]>>])

build_request_body_titan(filled_template, inference_config, additional_fields) ==
    LET c == Coerced(inference_config) IN
    IF c.raised THEN c
    ELSE Return([inputText |-> filled_template,
                 textGenerationConfig |->
                     [maxTokenCount |-> c.val.maxTokens,
                      temperature |-> c.val.temperature,
                      topP |-> c.val.topP,
                      stopSequences |-> Get(inference_config, "stopSequences", <<>>)]])

build_request_body_llama(filled_template, inference_config, additional_fields) ==
    LET c == Coerced(inference_config) IN
    IF c.raised THEN c
    ELSE Return([prompt |-> filled_template,
                 max_gen_len |-> c.val.maxTokens,
                 temperature |-> c.val.temperature,
                 top_p |-> c.val.topP])

build_request_body_mistral(filled_template, inference_config, additional_fields) ==
    LET c == Coerced(inference_config) IN
    IF c.raised THEN c
    ELSE Return([prompt |-> filled_template,
                 max_tokens |-> c.val.maxTokens,
                 temperature |-> c.val.temperature,
                 top_p |-> c.val.topP,
                 stop |-> Get(inference_config, "stopSequences", <<>>)])

build_request_body_cohere(filled_template, inference_config, additional_fields) ==
    LET c == Coerced(inference_config) IN
    IF c.raised THEN c
    ELSE Return([prompt |-> filled_template,
                 max_tokens |-> c.val.maxTokens,
                 temperature |-> c.val.temperature,
                 p |-> c.val.topP,
                 stop_sequences |-> Get(inference_config, "stopSequences", <<>>)])

build_request_body_ai21(filled_template, inference_config, additional_fields) ==
    LET c == Coerced(inference_config) IN
    IF c.raised THEN c
    ELSE Return([prompt |-> filled_template,
                 maxTokens |-> c.val.maxTokens,
                 temperature |-> c.val.temperature,
                 topP |-> c.val.topP,
                 stopSequences |-> Get(inference_config, "stopSequences", <<>>)])

\* builders.get(model_type, build_request_body_claude)(...)
build_request_body(model_id, filled_template, inference_config, additional_fields) ==
    LET model_type == get_model_type(model_id) IN
    CASE model_type = "claude" ->
            build_request_body_claude(filled_template, inference_config, additional_fields)
      [] model_type = "titan" ->
            build_request_body_titan(filled_template, inference_config, additional_fields)
      [] model_type = "llama" ->
            build_request_body_llama(filled_template, inference_config, additional_fields)
      [] model_type = "mistral" ->
            build_request_body_mistral(filled_template, inference_config, additional_fields)
      [] model_type = "cohere" ->
            build_request_body_cohere(filled_template, inference_config, additional_fields)
      [] model_type = "ai21" ->
            build_request_body_ai21(filled_template, inference_config, additional_fields)
      [] OTHER ->
            build_request_body_claude(filled_template, inference_config, additional_fields)

\* ------------------------------------------------------ template renderer
\* The string being rendered carries, for every character, where it came
\* from: o is its position in the template, or 0 for a character of an
\* inserted value.  The code sees only the characters (field c).
Tag(template) == [i \in 1..Len(template) |-> [c |-> template[i], o |-> i]]
Inserted(value) == [i \in 1..Len(value) |-> [c |-> value[i], o |-> 0]]
Chars(ts) == [i \in 1..Len(ts) |-> ts[i].c]

\* f"{{{{{var_name}}}}}" and f"{{{var_name}}}"
DoubleBrace(var_name) == <<"{", "{">> \o var_name \o <<"}", "}">>
SingleBrace(var_name) == <<"{">> \o var_name \o <<"}">>

StartsWith(ts, old) ==
    /\ Len(ts) >= Len(old)
    /\ \A i \in 1..Len(old) : ts[i].c = old[i]

\* str.replace(old, new) for a non-empty old: leftmost matches, left to
\* right, the scan resuming after each match
RECURSIVE Replace(_, _, _)
Replace(ts, old, new) ==
    IF Len(ts) < Len(old) THEN ts
    ELSE IF StartsWith(ts, old)
    THEN Inserted(new) \o Replace(SubSeq(ts, Len(old) + 1, Len(ts)), old, new)
    ELSE <<ts[1]>> \o Replace(Tail(ts), old, new)

\* The first k characters are k consecutive characters of the template.
Verbatim(ts, k) ==
    /\ ts[1].o > 0
    /\ \A i \in 1..k : ts[i].o = ts[1].o + i - 1

\* Whether some match of that same scan covers text that is not a verbatim
\* piece of the template (an inserted value, or pieces of the template that
\* an earlier replacement brought together).
RECURSIVE Rescans(_, _)
Rescans(ts, old) ==
    IF Len(ts) < Len(old) THEN FALSE
    ELSE IF StartsWith(ts, old)
    THEN ~Verbatim(ts, Len(old)) \/ Rescans(SubSeq(ts, Len(old) + 1, Len(ts)), old)
    ELSE Rescans(Tail(ts), old)

\* One iteration of `for var_name, var_value in prompt_variables.items()`
\* (invoke_prompt); a value that is no str makes str.replace raise.
RenderItem(ts, item) ==
    IF ~item.is_str THEN Raise("TypeError")
    ELSE Return(Replace(Replace(ts, DoubleBrace(item.name), item.value),
                        SingleBrace(item.name), item.value))

RescansItem(ts, item) ==
    \/ Rescans(ts, DoubleBrace(item.name))
    \/ Rescans(Replace(ts, DoubleBrace(item.name), item.value),
               SingleBrace(item.name))

\* An iteration that knows the double-brace form only
RenderItemStream_DoubleOnly(ts, item) ==
    IF ~item.is_str THEN Raise("TypeError")
    ELSE Return(Replace(ts, DoubleBrace(item.name), item.value))

\* The same iteration in invoke_prompt_stream
RenderItemStream(ts, item) ==
    IF ~item.is_str THEN Raise("TypeError")
    ELSE Return(Replace(Replace(ts, DoubleBrace(item.name), item.value),
                        SingleBrace(item.name), item.value))

\* prompt_variables: [given |-> FALSE] for None, else the dict's items in
\* order, [given |-> TRUE, items |-> <<[name, value, is_str], ...>>].
Items(prompt_variables) ==
    IF prompt_variables.given THEN prompt_variables.items ELSE <<>>

RECURSIVE RenderLoop(_, _)
RenderLoop(ts, items) ==
    IF Len(items) = 0 THEN Return(ts)
    ELSE LET r == RenderItem(ts, Head(items)) IN
         IF r.raised THEN r ELSE RenderLoop(r.val, Tail(items))

RECURSIVE RenderLoopStream(_, _)
RenderLoopStream(ts, items) ==
    IF Len(items) = 0 THEN Return(ts)
    ELSE LET r == RenderItemStream(ts, Head(items)) IN
         IF r.raised THEN r ELSE RenderLoopStream(r.val, Tail(items))

RECURSIVE RescansLoop(_, _)
RescansLoop(ts, items) ==
    IF Len(items) = 0 THEN FALSE
    ELSE LET r == RenderItem(ts, Head(items)) IN
         IF r.raised THEN FALSE
         ELSE RescansItem(ts, Head(items)) \/ RescansLoop(r.val, Tail(items))

\* filled_template of invoke_prompt (lines 358-363), provenance kept
Render(template_text, prompt_variables) ==
    RenderLoop(Tag(template_text), Items(prompt_variables))

\* filled_template of invoke_prompt_stream (lines 474-478)
RenderStream(template_text, prompt_variables) ==
    RenderLoopStream(Tag(template_text), Items(prompt_variables))

\* ------------------------------------------------------------ operations
\* What an operation's body hands to its `except` clauses, and what the
\* operation hands to its caller, is Return(v) or Raise(e), extended with
\* observation fields that the code does not have: calls (how many times the
\* inference endpoint was called), variant (the local `variant`) and filled
\* (what rendering the template gave, None when it was not rendered).
Observed(o, calls, variant, filled) ==
    o @@ [calls |-> calls, variant |-> variant, filled |-> filled]
Observations(o) == [k \in DOMAIN o \ {"raised", "val", "exc"} |-> o[k]]

\* except ClientError / except Exception: return {"success": False, "error": str(e)}
CatchAll(o) ==
    IF o.raised THEN Return(ErrorEnvelope(o.exc)) @@ Observations(o) ELSE o

\* json.loads(...) of a payload: the payload either encodes a JSON object or
\* is not decodable.
JsonLoads(payload) ==
    IF payload.valid THEN Return(payload.json) ELSE Raise("JSONDecodeError")

Min(S) == CHOOSE i \in S : \A j \in S : i <= j

get_prompt_details_except(o) == CatchAll(o)

\* get_prompt_resp: what bedrock_agent_client.get_prompt(**params) does
get_prompt_details(get_prompt_resp) ==
    get_prompt_details_except(
        IF get_prompt_resp.raised THEN get_prompt_resp
        ELSE Return([success |-> TRUE, prompt |-> get_prompt_resp.val]))

list_prompt_versions_except(o) == CatchAll(o)

\* list_resp: what bedrock_agent_client.list_prompt_versions(...) does
list_prompt_versions(list_resp) ==
    list_prompt_versions_except(
        IF list_resp.raised THEN list_resp
        ELSE Return([success |-> TRUE,
                     versions |-> Get(list_resp.val, "promptSummaries", <<>>),
                     nextToken |-> Get(list_resp.val, "nextToken", None)]))

\* A selection that ignores the names and takes the first variant
SelectVariant_First(prompt_data) ==
    LET variants == Get(prompt_data, "variants", <<>>) IN
    IF Len(variants) > 0 THEN variants[1] ELSE None

\* Lines 335-345 of invoke_prompt: the variant named by defaultVariant, else
\* the first one, else None.
SelectVariant(prompt_data) ==
    LET default_variant_name == Get(prompt_data, "defaultVariant", "variantOne")
        variants == Get(prompt_data, "variants", <<>>)
        hits == {i \in 1..Len(variants) :
                    Get(variants[i], "name", "<None>") = default_variant_name}
        variant == IF hits = {} THEN None ELSE variants[Min(hits)]
    IN  IF Falsy(variant) /\ Len(variants) > 0 THEN variants[1] ELSE variant

\* Lines 452-462 of invoke_prompt_stream
SelectVariantStream(prompt_data) ==
    LET default_variant_name == Get(prompt_data, "defaultVariant", "variantOne")
        variants == Get(prompt_data, "variants", <<>>)
        hits == {i \in 1..Len(variants) :
                    Get(variants[i], "name", "<None>") = default_variant_name}
        variant == IF hits = {} THEN None ELSE variants[Min(hits)]
    IN  IF Falsy(variant) /\ Len(variants) > 0 THEN variants[1] ELSE variant

TemplateText(variant) ==
    Get(Get(Get(variant, "templateConfiguration", EmptyDict), "text", EmptyDict),
        "text", <<>>)

InferenceConfig(variant) ==
    Get(Get(variant, "inferenceConfiguration", EmptyDict), "text", EmptyDict)

\* A last step that returns a result without calling the endpoint
InvokeModel_Skipped(prompt_identifier, variant, filled, invoke_model_resp) ==
    Observed(Return([success |-> TRUE,
                     completion |-> "",
                     model_id |-> Get(variant, "modelId", <<>>),
                     model_type |-> get_model_type(Get(variant, "modelId", <<>>)),
                     prompt_id |-> prompt_identifier,
                     filled_template |-> Chars(filled.val),
                     metadata |-> [response_body |-> EmptyDict]]),
             0, variant, filled)

\* Lines 386-405 of invoke_prompt: the blocking call, the parse, the result
InvokeModel(prompt_identifier, variant, filled, invoke_model_resp) ==
    LET model_id == Get(variant, "modelId", <<>>) IN
    IF invoke_model_resp.raised THEN Observed(invoke_model_resp, 1, variant, filled)
    ELSE LET response_body == JsonLoads(invoke_model_resp.val) IN
    IF response_body.raised THEN Observed(response_body, 1, variant, filled)
    ELSE LET completion_text == parse_model_response(model_id, response_body.val) IN
    IF completion_text.raised THEN Observed(completion_text, 1, variant, filled)
    ELSE Observed(Return([success |-> TRUE,
                          completion |-> completion_text.val,
                          model_id |-> model_id,
                          model_type |-> get_model_type(model_id),
                          prompt_id |-> prompt_identifier,
                          filled_template |-> Chars(filled.val),
                          metadata |-> [response_body |-> response_body.val]]),
                  1, variant, filled)

\* The try block of invoke_prompt (lines 326-405)
invoke_prompt_try(prompt_identifier, prompt_variables, stream, get_prompt_resp, invoke_model_resp) ==
    LET prompt_details_response == get_prompt_details(get_prompt_resp).val IN
    IF ~prompt_details_response.success
    THEN Observed(Return(prompt_details_response), 0, None, None)
    ELSE LET variant == SelectVariant(prompt_details_response.prompt) IN
    IF Falsy(variant)
    THEN Observed(Return(ErrorEnvelope("No variant found in prompt")), 0, variant, None)
    ELSE LET template_text == TemplateText(variant) IN
    IF Len(template_text) = 0
    THEN Observed(Return(ErrorEnvelope("No template text found in prompt")), 0, variant, None)
    ELSE LET filled_template == Render(template_text, prompt_variables) IN
    IF filled_template.raised THEN Observed(filled_template, 0, variant, filled_template)
    ELSE LET request_body ==
                build_request_body(Get(variant, "modelId", <<>>),
                                   Chars(filled_template.val),
                                   InferenceConfig(variant),
                                   Get(variant, "additionalModelRequestFields", EmptyDict))
         IN
    IF request_body.raised THEN Observed(request_body, 0, variant, filled_template)
    ELSE IF stream
    THEN Observed(Return(ErrorEnvelope(
                      "Streaming requires use of invoke_prompt_stream tool")),
                  0, variant, filled_template)
    ELSE InvokeModel(prompt_identifier, variant, filled_template, invoke_model_resp)

\* A handler with the `except ClientError` clause only
invoke_prompt_except_ClientErrorOnly(o) ==
    IF o.raised /\ o.exc = "ClientError" THEN CatchAll(o) ELSE o

\* except ClientError / except Exception (lines 407-412)
invoke_prompt_except(o) == CatchAll(o)

invoke_prompt(prompt_identifier, prompt_variables, stream, get_prompt_resp, invoke_model_resp) ==
    invoke_prompt_except(
        invoke_prompt_try(prompt_identifier, prompt_variables, stream,
                          get_prompt_resp, invoke_model_resp))

\* --------------------------------------------------------- streaming
\* str(chunk_obj): one piece of text that stands for the whole object
Str(chunk_obj) == <<ToString(chunk_obj)>>

\* A loop body that has no branch for titan
StreamEvent_NoTitanBranch(acc, event, model_id) ==
    LET chunk == Get(event, "chunk", None) IN
    IF Falsy(chunk) THEN Return(acc)
    ELSE LET chunk_obj == JsonLoads(chunk.bytes)
             model_type == get_model_type(model_id)
             Append_(text) == [full_text |-> acc.full_text \o text,
                               chunks |-> Append(acc.chunks, text)]
         IN
    IF chunk_obj.raised THEN chunk_obj
    ELSE IF model_type = "claude"
    THEN IF Get(chunk_obj.val, "type", "<None>") = "content_block_delta"
         THEN LET text == Get(Get(chunk_obj.val, "delta", EmptyDict), "text", <<>>) IN
              IF Len(text) > 0 THEN Return(Append_(text)) ELSE Return(acc)
         ELSE Return(acc)
    ELSE Return(Append_(Str(chunk_obj.val)))

\* The body of `for event in stream` (lines 506-531) for one event:
\* acc is [full_text, chunks]; the result is Return(acc') or Raise(e).
StreamEvent(acc, event, model_id) ==
    LET chunk == Get(event, "chunk", None) IN
    IF Falsy(chunk) THEN Return(acc)
    ELSE LET chunk_obj == JsonLoads(chunk.bytes)
             model_type == get_model_type(model_id)
             Append_(text) == [full_text |-> acc.full_text \o text,
                               chunks |-> Append(acc.chunks, text)]
         IN
    IF chunk_obj.raised THEN chunk_obj
    ELSE IF model_type = "claude"
    THEN IF Get(chunk_obj.val, "type", "<None>") = "content_block_delta"
         THEN LET text == Get(Get(chunk_obj.val, "delta", EmptyDict), "text", <<>>) IN
              IF Len(text) > 0 THEN Return(Append_(text)) ELSE Return(acc)
         ELSE Return(acc)
    ELSE IF model_type = "titan"
    THEN LET text == Get(chunk_obj.val, "outputText", <<>>) IN
         IF Len(text) > 0 THEN Return(Append_(text)) ELSE Return(acc)
    ELSE Return(Append_(Str(chunk_obj.val)))

\* A loop that takes the events last to first
RECURSIVE StreamLoop_LastFirst(_, _, _)
StreamLoop_LastFirst(acc, events, model_id) ==
    IF Len(events) = 0 THEN Return(acc)
    ELSE LET r == StreamEvent(acc, events[Len(events)], model_id) IN
         IF r.raised THEN r
         ELSE StreamLoop_LastFirst(r.val, SubSeq(events, 1, Len(events) - 1), model_id)

RECURSIVE StreamLoop(_, _, _)
StreamLoop(acc, events, model_id) ==
    IF Len(events) = 0 THEN Return(acc)
    ELSE LET r == StreamEvent(acc, Head(events), model_id) IN
         IF r.raised THEN r ELSE StreamLoop(r.val, Tail(events), model_id)

\* Lines 494-541 of invoke_prompt_stream: the streaming call, the loop over
\* the events, the result
InvokeModelStream(prompt_identifier, variant, filled, stream_resp) ==
    LET model_id == Get(variant, "modelId", <<>>) IN
    IF stream_resp.raised THEN Observed(stream_resp, 1, variant, filled)
    ELSE LET stream == Get(stream_resp.val, "body", <<>>)
             acc == StreamLoop([full_text |-> <<>>, chunks |-> <<>>], stream, model_id)
         IN
    IF acc.raised THEN Observed(acc, 1, variant, filled)
    ELSE Observed(Return([success |-> TRUE,
                          completion |-> acc.val.full_text,
                          chunks |-> acc.val.chunks,
                          chunk_count |-> Len(acc.val.chunks),
                          model_id |-> model_id,
                          model_type |-> get_model_type(model_id),
                          prompt_id |-> prompt_identifier]),
                  1, variant, filled)

\* The try block of invoke_prompt_stream (lines 445-541)
invoke_prompt_stream_try(prompt_identifier, prompt_variables, get_prompt_resp, stream_resp) ==
    LET prompt_details_response == get_prompt_details(get_prompt_resp).val IN
    IF ~prompt_details_response.success
    THEN Observed(Return(prompt_details_response), 0, None, None)
    ELSE LET variant == SelectVariantStream(prompt_details_response.prompt) IN
    IF Falsy(variant)
    THEN Observed(Return(ErrorEnvelope("No variant found in prompt")), 0, variant, None)
    ELSE LET template_text == TemplateText(variant) IN
    IF Len(template_text) = 0
    THEN Observed(Return(ErrorEnvelope("No template text found in prompt")), 0, variant, None)
    ELSE LET filled_template == RenderStream(template_text, prompt_variables) IN
    IF filled_template.raised THEN Observed(filled_template, 0, variant, filled_template)
    ELSE LET request_body ==
                build_request_body(Get(variant, "modelId", <<>>),
                                   Chars(filled_template.val),
                                   InferenceConfig(variant),
                                   Get(variant, "additionalModelRequestFields", EmptyDict))
         IN
    IF request_body.raised THEN Observed(request_body, 0, variant, filled_template)
    ELSE InvokeModelStream(prompt_identifier, variant, filled_template, stream_resp)

invoke_prompt_stream_except(o) == CatchAll(o)

invoke_prompt_stream(prompt_identifier, prompt_variables, get_prompt_resp, stream_resp) ==
    invoke_prompt_stream_except(
        invoke_prompt_stream_try(prompt_identifier, prompt_variables,
                                 get_prompt_resp, stream_resp))

\* ------------------------------------------------------------- state
VARIABLES
    entry,          \* "direct" or "call_tool": how the operation is reached
    tool_name,      \* call_tool's `name`
    arguments_ok,   \* whether `arguments` holds the keys the tool requires
    target,         \* the operation that runs
    pc,             \* where the calling thread is
    inp,            \* the inputs and what the external services will answer
    out,            \* what the operation returned or raised (None before)
    tool_out,       \* what call_tool returned or raised (None before)
    variable_sets,  \* batch: the caller's list of variable mappings
    max_workers,    \* batch: the caller's concurrency limit
    futures,        \* batch: futures[i], the state of the task of index i-1
    outcome,        \* batch: outcome[i], what invoke_single returned
    cursor,         \* batch: 0-based position of the submit / collect loop
    timed_out,      \* batch: tasks whose future.result(timeout=120) timed out
    results,        \* batch: the list `results`
    errors          \* batch: the list `errors`

vars == <<entry, tool_name, arguments_ok, target, pc, inp, out, tool_out,
          variable_sets, max_workers, futures, outcome, cursor, timed_out,
          results, errors>>

batch_vars == <<variable_sets, max_workers, futures, outcome, cursor,
                timed_out, results, errors>>

\* ------------------------------------------------------------- inputs
Str_a == <<"a">>
Str_b == <<"b">>
Str_x == <<"x">>
Str_y == <<"y">>

Id_claude == <<"C", "l", "a", "u", "d", "e", "-", "3">>
Id_anthropic == <<"a", "n", "t", "h", "r", "o", "p", "i", "c", ".", "v", "2">>
Id_titan == <<"a", "m", "a", "z", "o", "n", ".", "T", "I", "T", "A", "N">>
Id_llama == <<"l", "l", "a", "m", "a", "3">>
Id_meta == <<"m", "e", "t", "a", ".", "l", "3">>
Id_mistral == <<"m", "i", "s", "t", "r", "a", "l", ".", "7", "b">>
Id_cohere == <<"c", "o", "h", "e", "r", "e", ".", "c", "m", "d">>
Id_ai21 == <<"a", "i", "2", "1", ".", "j", "2">>
Id_jurassic == <<"J", "u", "r", "a", "s", "s", "i", "c", "-", "2">>
Id_unknown == <<"g", "p", "t", "-", "x">>
Id_empty == <<>>

ModelIds == {Id_claude, Id_anthropic, Id_titan, Id_llama, Id_meta, Id_mistral,
             Id_cohere, Id_ai21, Id_jurassic, Id_unknown, Id_empty}

\* A variant as the catalog returns it
Variant(name, model_id, template_text, inference_config) ==
    [name |-> name,
     modelId |-> model_id,
     templateConfiguration |-> [text |-> [text |-> template_text]],
     inferenceConfiguration |-> [text |-> inference_config]]

\* "Q{{a}}"
Template_Q == <<"Q", "{", "{", "a", "}", "}">>

Config_ok == [maxTokens |-> [n |-> 512000], temperature |-> [n |-> 700]]
Config_bad == [maxTokens |-> [bad |-> TRUE]]

PromptData(model_id, template_text, inference_config) ==
    [name |-> "prompt",
     defaultVariant |-> "variantOne",
     variants |-> <<Variant("variantOne", model_id, template_text, inference_config)>>]

Prompt_ok == PromptData(Id_claude, Template_Q, Config_ok)

\* An item of prompt_variables.items()
Item(name, value) == [name |-> name, value |-> value, is_str |-> TRUE]
NonStrItem(name) == [name |-> name, value |-> <<>>, is_str |-> FALSE]

NoVariables == [given |-> FALSE]
Variables(items) == [given |-> TRUE, items |-> items]

\* The body of an invoke_model response
Json(obj) == [valid |-> TRUE, json |-> obj]
NotJson == [valid |-> FALSE]

Body_claude_hi == [content |-> <<[type |-> "text", text |-> "hi"]>>]

\* An event of a response stream
ChunkEvent(payload) == [chunk |-> [bytes |-> payload]]
Delta(text) == ChunkEvent(Json([type |-> "content_block_delta", delta |-> [text |-> text]]))

Inputs(prompt_variables, get_prompt_resp, invoke_model_resp, stream_resp, list_resp) ==
    [prompt_identifier |-> "PROMPT1",
     prompt_variables |-> prompt_variables,
     get_prompt_resp |-> get_prompt_resp,
     invoke_model_resp |-> invoke_model_resp,
     stream_resp |-> stream_resp,
     list_resp |-> list_resp]

DefaultInputs ==
    Inputs(Variables(<<Item(Str_a, Str_x)>>),
           Return(Prompt_ok),
           Return(Json(Body_claude_hi)),
           Return([body |-> <<Delta(Str_x)>>]),
           Return([promptSummaries |-> <<>>]))

\* ------------------------------------------- single-call operations
SingleOps == {"get_prompt_details", "invoke_prompt", "invoke_prompt_stream",
              "list_prompt_versions"}

Returned(o) ==
    /\ pc' = "returned"
    /\ out' = o
    /\ UNCHANGED <<entry, tool_name, arguments_ok, target, inp, tool_out, batch_vars>>

CallGetPromptDetails ==
    /\ pc = "start" /\ target = "get_prompt_details"
    /\ Returned(get_prompt_details(inp.get_prompt_resp))

\* A call of invoke_prompt that drops the caller's streaming flag
CallInvokePrompt_IgnoreFlag ==
    /\ pc = "start" /\ target = "invoke_prompt"
    /\ Returned(invoke_prompt(inp.prompt_identifier, inp.prompt_variables, FALSE,
                              inp.get_prompt_resp, inp.invoke_model_resp))

\* invoke_prompt(prompt_identifier, prompt_variables, prompt_version, stream):
\* stream is False unless the caller gives it
CallInvokePrompt ==
    /\ pc = "start" /\ target = "invoke_prompt"
    /\ Returned(invoke_prompt(inp.prompt_identifier, inp.prompt_variables,
                              Get(inp, "stream", FALSE),
                              inp.get_prompt_resp, inp.invoke_model_resp))

CallInvokePromptStream ==
    /\ pc = "start" /\ target = "invoke_prompt_stream"
    /\ Returned(invoke_prompt_stream(inp.prompt_identifier, inp.prompt_variables,
                                     inp.get_prompt_resp, inp.stream_resp))

CallListPromptVersions ==
    /\ pc = "start" /\ target = "list_prompt_versions"
    /\ Returned(list_prompt_versions(inp.list_resp))

\* ------------------------------------------------ batch_invoke_prompt
N == Len(variable_sets)
Tasks == 1..N

\* What a task's blocking inference call may do
TaskInferenceOutcomes == {Raise("ClientError"), Return(Json(Body_claude_hi))}

\* A wrapper that records the same index for every task
invoke_single_one_index(variables, index, r) ==
    IF r.raised
    THEN [index |-> 0, variables |-> variables,
          success |-> FALSE, error |-> r.exc]
    ELSE [index |-> 0, variables |-> variables,
          result |-> r.val, success |-> Get(r.val, "success", FALSE)]

\* invoke_single (lines 571-587): r is what invoke_prompt returned or raised
invoke_single(variables, index, r) ==
    IF r.raised
    THEN [index |-> index, variables |-> variables,
          success |-> FALSE, error |-> r.exc]
    ELSE [index |-> index, variables |-> variables,
          result |-> r.val, success |-> Get(r.val, "success", FALSE)]

\* except Exception as e: errors.append({...}) around future.result (603-607)
FutureError == [success |-> FALSE, error |-> "Future execution error"]

\* A pool that is left without waiting: shutdown(wait=False)
ShutdownNoWait == TRUE

\* What leaving `with ThreadPoolExecutor(...)` waits for: shutdown(wait=True)
ShutdownWait == \A i \in Tasks : futures[i] = "finished"

\* The report of lines 609-617
Report ==
    [success |-> TRUE,
     total_invocations |-> Len(variable_sets),
     successful |-> Len(results),
     failed |-> Len(errors),
     results |-> results,
     errors |-> errors,
     prompt_id |-> inp.prompt_identifier]

batch_invoke_prompt_except(o) == CatchAll(o)

\* An orchestrator that looks the shared prompt up before it starts any task
\* and gives up when the lookup fails
BatchStart_InitialLookup ==
    /\ pc = "start" /\ target = "batch_invoke_prompt"
    /\ IF max_workers <= 0
       THEN /\ pc' = "returned"
            /\ out' = batch_invoke_prompt_except(Raise("ValueError"))
       ELSE IF ~get_prompt_details(inp.get_prompt_resp).val.success
       THEN /\ pc' = "returned"
            /\ out' = Return(get_prompt_details(inp.get_prompt_resp).val)
       ELSE /\ pc' = "submit"
            /\ out' = out
    /\ UNCHANGED <<entry, tool_name, arguments_ok, target, inp, tool_out, batch_vars>>

\* results = [], errors = [], and ThreadPoolExecutor(max_workers=max_workers),
\* which raises ValueError unless max_workers > 0
BatchStart ==
    /\ pc = "start" /\ target = "batch_invoke_prompt"
    /\ IF max_workers <= 0
       THEN /\ pc' = "returned"
            /\ out' = batch_invoke_prompt_except(Raise("ValueError"))
       ELSE /\ pc' = "submit"
            /\ out' = out
    /\ UNCHANGED <<entry, tool_name, arguments_ok, target, inp, tool_out, batch_vars>>

\* executor.submit(invoke_single, var_set, i), one per variable set, in order
SubmitTask ==
    /\ pc = "submit" /\ cursor < N
    /\ futures' = [futures EXCEPT ![cursor + 1] = "pending"]
    /\ cursor' = cursor + 1
    /\ UNCHANGED <<entry, tool_name, arguments_ok, target, pc, inp, out, tool_out,
                   variable_sets, max_workers, outcome, timed_out, results, errors>>

\* The list of futures is complete: `for future in futures` begins.
BeginCollect ==
    /\ pc = "submit" /\ cursor = N
    /\ pc' = "collect"
    /\ cursor' = 0
    /\ UNCHANGED <<entry, tool_name, arguments_ok, target, inp, out, tool_out,
                   variable_sets, max_workers, futures, outcome, timed_out,
                   results, errors>>

\* A pool that starts a worker for every queued task
StartTask_Unbounded(i) ==
    /\ futures[i] = "pending"
    /\ \A j \in 1..(i - 1) : futures[j] # "pending"
    /\ futures' = [futures EXCEPT ![i] = "running"]
    /\ UNCHANGED <<entry, tool_name, arguments_ok, target, pc, inp, out, tool_out,
                   variable_sets, max_workers, outcome, cursor, timed_out,
                   results, errors>>

\* A worker of the pool takes the oldest queued task; the pool has at most
\* max_workers workers.
StartTask(i) ==
    /\ futures[i] = "pending"
    /\ \A j \in 1..(i - 1) : futures[j] # "pending"
    /\ Cardinality({j \in Tasks : futures[j] = "running"}) < max_workers
    /\ futures' = [futures EXCEPT ![i] = "running"]
    /\ UNCHANGED <<entry, tool_name, arguments_ok, target, pc, inp, out, tool_out,
                   variable_sets, max_workers, outcome, cursor, timed_out,
                   results, errors>>

\* The worker's invoke_single returns.  The task's own inference call may
\* fail or succeed; `injected` stands for an exception that reaches
\* invoke_single's except clause.
FinishTask(i) ==
    /\ futures[i] = "running"
    /\ \E invoke_model_resp \in TaskInferenceOutcomes, injected \in BOOLEAN :
          LET r == IF injected THEN Raise("InjectedError")
                   ELSE invoke_prompt(inp.prompt_identifier, variable_sets[i], FALSE,
                                      inp.get_prompt_resp, invoke_model_resp)
          IN outcome' = [outcome EXCEPT ![i] = invoke_single(variable_sets[i], i - 1, r)]
    /\ futures' = [futures EXCEPT ![i] = "finished"]
    /\ UNCHANGED <<entry, tool_name, arguments_ok, target, pc, inp, out, tool_out,
                   variable_sets, max_workers, cursor, timed_out, results, errors>>

\* future.result(timeout=120) returns the task's record
CollectResult ==
    /\ pc = "collect" /\ cursor < N
    /\ futures[cursor + 1] = "finished"
    /\ LET result == outcome[cursor + 1] IN
       IF result.success
       THEN /\ results' = Append(results, result)
            /\ errors' = errors
       ELSE /\ errors' = Append(errors, result)
            /\ results' = results
    /\ cursor' = cursor + 1
    /\ UNCHANGED <<entry, tool_name, arguments_ok, target, pc, inp, out, tool_out,
                   variable_sets, max_workers, futures, outcome, timed_out>>

\* future.result(timeout=120) raises TimeoutError: the task has not finished
\* when the wait expires
CollectTimeout ==
    /\ pc = "collect" /\ cursor < N
    /\ futures[cursor + 1] # "finished"
    /\ errors' = Append(errors, FutureError)
    /\ timed_out' = timed_out \cup {cursor + 1}
    /\ cursor' = cursor + 1
    /\ UNCHANGED <<entry, tool_name, arguments_ok, target, pc, inp, out, tool_out,
                   variable_sets, max_workers, futures, outcome, results>>

\* The with block ends (the pool is shut down, waiting for its workers) and
\* the report is returned.
BatchReturn ==
    /\ pc = "collect" /\ cursor = N
    /\ ShutdownWait
    /\ pc' = "returned"
    /\ out' = batch_invoke_prompt_except(Return(Report))
    /\ UNCHANGED <<entry, tool_name, arguments_ok, target, inp, tool_out, batch_vars>>

NextBatch ==
    \/ BatchStart
    \/ SubmitTask
    \/ BeginCollect
    \/ \E i \in Tasks : StartTask(i)
    \/ \E i \in Tasks : FinishTask(i)
    \/ CollectResult
    \/ CollectTimeout
    \/ BatchReturn

\* ------------------------------------------------------------ call_tool
ToolOf(op) ==
    CASE op = "get_prompt_details" -> "get_bedrock_prompt_details"
      [] op = "invoke_prompt" -> "invoke_bedrock_prompt"
      [] op = "invoke_prompt_stream" -> "invoke_bedrock_prompt_stream"
      [] op = "batch_invoke_prompt" -> "batch_invoke_bedrock_prompt"
      [] op = "list_prompt_versions" -> "list_bedrock_prompt_versions"
      [] OTHER -> "no_such_tool"

\* TextContent(type="text", text=json.dumps(result, indent=2, default=str))
TextContent(result) == [type |-> "text", text |-> [json |-> result]]

\* except Exception as e (lines 823-826)
call_tool_except(o) ==
    IF o.raised THEN Return(TextContent(ErrorEnvelope(o.exc))) ELSE o

ToolReturned(o) ==
    /\ pc' = "tool_returned"
    /\ tool_out' = call_tool_except(o)
    /\ UNCHANGED <<entry, tool_name, arguments_ok, target, inp, out, batch_vars>>

\* The branches of call_tool that end before any operation runs: the name
\* list_prompts is not defined in the module (NameError), a required key is
\* missing from arguments (KeyError), the tool is unknown.
ToolReject ==
    /\ pc = "tool"
    /\ \/ tool_name = "list_bedrock_prompts" /\ ToolReturned(Raise("NameError"))
       \/ /\ tool_name \notin {"list_bedrock_prompts", "no_such_tool"}
          /\ ~arguments_ok
          /\ ToolReturned(Raise("KeyError"))
       \/ /\ tool_name = "no_such_tool"
          /\ ToolReturned(Return(TextContent(ErrorEnvelope("Unknown tool"))))

\* The branches of call_tool that call an operation
ToolDispatch ==
    /\ pc = "tool"
    /\ tool_name = ToolOf(target)
    /\ tool_name # "no_such_tool"
    /\ arguments_ok
    /\ pc' = "start"
    /\ UNCHANGED <<entry, tool_name, arguments_ok, target, inp, out, tool_out, batch_vars>>

\* The operation is back in call_tool: the result is formatted (line 821).
ToolFormat ==
    /\ pc = "returned" /\ entry = "call_tool"
    /\ ToolReturned(IF out.raised THEN [raised |-> TRUE, exc |-> out.exc]
                    ELSE Return(TextContent(out.val)))

NextTool == ToolReject \/ ToolDispatch \/ ToolFormat

NextCall ==
    \/ CallGetPromptDetails
    \/ CallInvokePrompt
    \/ CallInvokePromptStream
    \/ CallListPromptVersions

NextInvoke == CallInvokePrompt \/ CallInvokePromptStream

Next == NextBatch \/ NextCall \/ NextTool

\* ------------------------------------------------------- initial states
NoBatch ==
    /\ variable_sets = <<>>
    /\ max_workers = 1
    /\ futures = <<>>
    /\ outcome = <<>>
    /\ cursor = 0
    /\ timed_out = {}
    /\ results = <<>>
    /\ errors = <<>>

Direct(ops) ==
    /\ entry = "direct"
    /\ target \in ops
    /\ tool_name = ToolOf(target)
    /\ arguments_ok = TRUE
    /\ pc = "start"
    /\ out = None
    /\ tool_out = None

ViaTool(ops) ==
    /\ entry = "call_tool"
    /\ \/ target \in ops /\ tool_name = ToolOf(target)
       \/ target = "none" /\ tool_name \in {"list_bedrock_prompts", "no_such_tool"}
    /\ arguments_ok \in BOOLEAN
    /\ pc = "tool"
    /\ out = None
    /\ tool_out = None

\* The variable mappings a batch is called with
VarSet_x == Variables(<<Item(Str_a, Str_x)>>)
VarSet_y == Variables(<<Item(Str_a, Str_y)>>)

\* The caller's list: neighbours get different mappings.
VarSetAt(i) == IF i % 2 = 1 THEN VarSet_x ELSE VarSet_y

SeqsUpTo(S, n) == UNION {[1..k -> S] : k \in 0..n}

BatchInputs ==
    /\ inp \in {Inputs(NoVariables, g, Return(Json(Body_claude_hi)),
                       Return([body |-> <<>>]), Return(EmptyDict)) :
                g \in {Return(Prompt_ok), Raise("ResourceNotFoundException")}}
    /\ variable_sets \in {[i \in 1..k |-> VarSetAt(i)] : k \in 0..MaxTasks}
    /\ max_workers \in 0..MaxWorkers
    /\ futures = [i \in 1..Len(variable_sets) |-> "unsubmitted"]
    /\ outcome = [i \in 1..Len(variable_sets) |-> None]
    /\ cursor = 0
    /\ timed_out = {}
    /\ results = <<>>
    /\ errors = <<>>

InitBatch == Direct({"batch_invoke_prompt"}) /\ BatchInputs

SpecBatch == InitBatch /\ [][NextBatch]_vars

\* ---------------------------------------------- inputs of the renderer
MaxPieces == 3

RECURSIVE Flatten(_)
Flatten(ss) == IF Len(ss) = 0 THEN <<>> ELSE Head(ss) \o Flatten(Tail(ss))

\* "{{a}}", "{a}", "{b}", "{", "x"
Pieces == {<<"{", "{", "a", "}", "}">>, <<"{", "a", "}">>, <<"{", "b", "}">>,
           <<"{">>, <<"x">>}

Templates == {Flatten(ps) : ps \in SeqsUpTo(Pieces, MaxPieces)}

VarNames == {Str_a, Str_b}

\* "", "x", "{b}", "x{a}"
VarValues == {<<>>, <<"x">>, <<"{", "b", "}">>, <<"x", "{", "a", "}">>}

Mappings ==
    {NoVariables, Variables(<<>>), Variables(<<NonStrItem(Str_a)>>)}
    \cup {Variables(<<Item(n, v)>>) : n \in VarNames, v \in VarValues}
    \cup {Variables(<<Item(p[1], v), Item(p[2], w)>>) :
              p \in {q \in VarNames \X VarNames : q[1] # q[2]},
              v \in VarValues, w \in VarValues}

InitRender ==
    /\ Direct({"invoke_prompt", "invoke_prompt_stream"})
    /\ NoBatch
    /\ inp \in {Inputs(m, Return(PromptData(Id_claude, t, Config_ok)),
                       Return(Json(Body_claude_hi)),
                       Return([body |-> <<Delta(Str_x)>>]),
                       Return(EmptyDict)) :
                m \in Mappings, t \in Templates}

SpecRender == InitRender /\ [][NextInvoke]_vars

\* ------------------------------------------------ inputs of the parsers
Text_hi == "hi"

Bodies ==
    {EmptyDict,
     [content |-> <<>>], [content |-> <<EmptyDict>>],
     [content |-> <<[type |-> "text", text |-> Text_hi]>>],
     [results |-> <<>>], [results |-> <<EmptyDict>>],
     [results |-> <<[outputText |-> Text_hi]>>],
     [generation |-> Text_hi],
     [outputs |-> <<>>], [outputs |-> <<EmptyDict>>],
     [outputs |-> <<[text |-> Text_hi]>>],
     [generations |-> <<>>], [generations |-> <<EmptyDict>>],
     [generations |-> <<[text |-> Text_hi]>>],
     [completions |-> <<>>], [completions |-> <<EmptyDict>>],
     [completions |-> <<[data |-> EmptyDict]>>],
     [completions |-> <<[data |-> [text |-> Text_hi]]>>]}

InitParse ==
    /\ Direct({"invoke_prompt", "invoke_prompt_stream"})
    /\ NoBatch
    /\ inp \in {Inputs(Variables(<<Item(Str_a, Str_x)>>),
                       Return(PromptData(id, Template_Q, Config_ok)),
                       Return(Json(b)),
                       Return([body |-> <<ChunkEvent(Json(b))>>]),
                       Return(EmptyDict)) :
                id \in ModelIds, b \in Bodies}

SpecParse == InitParse /\ [][NextInvoke]_vars

\* ------------------------------------------- inputs of the stream loop
MaxEvents == 3

EventChoices ==
    {ChunkEvent(NotJson),
     Delta(Str_a), Delta(Str_b),
     ChunkEvent(Json([type |-> "message_start"])),
     ChunkEvent(Json([outputText |-> Str_y])),
     [metadata |-> EmptyDict]}

StreamModelIds == {Id_claude, Id_titan, Id_llama, Id_unknown}

InitStream ==
    /\ Direct({"invoke_prompt", "invoke_prompt_stream"})
    /\ NoBatch
    /\ inp \in {Inputs(Variables(<<Item(Str_a, Str_x)>>),
                       Return(PromptData(id, Template_Q, Config_ok)),
                       Return(Json(Body_claude_hi)),
                       Return([body |-> es]),
                       Return(EmptyDict)) :
                id \in StreamModelIds, es \in SeqsUpTo(EventChoices, MaxEvents)}

SpecStream == InitStream /\ [][NextInvoke]_vars

\* ------------------------------------- inputs of the variant selection
MaxVariants == 3

VariantNames == {"variantOne", "v2", "v3"}

\* The i-th variant of a definition has its own model id.
IdAt == <<Id_claude, Id_titan, Id_llama, Id_mistral, Id_cohere, Id_ai21>>

VariantLists ==
    {[i \in 1..Len(ns) |-> Variant(ns[i], IdAt[i], Template_Q, Config_ok)] :
        ns \in SeqsUpTo(VariantNames, MaxVariants)}

PromptDefinitions ==
    {[name |-> "prompt"]}
    \cup {[name |-> "prompt", variants |-> vs] : vs \in VariantLists}
    \cup {[name |-> "prompt", defaultVariant |-> d, variants |-> vs] :
              d \in {"variantOne", "v2"}, vs \in VariantLists}

InitVariant ==
    /\ Direct({"invoke_prompt", "invoke_prompt_stream"})
    /\ NoBatch
    /\ inp \in {Inputs(Variables(<<Item(Str_a, Str_x)>>),
                       Return(pd),
                       Return(Json(Body_claude_hi)),
                       Return([body |-> <<Delta(Str_x)>>]),
                       Return(EmptyDict)) :
                pd \in PromptDefinitions}

SpecVariant == InitVariant /\ [][NextInvoke]_vars

\* --------------------------------------- every operation, every failure
AllOps == SingleOps \cup {"batch_invoke_prompt"}

OpsInputs ==
    {Inputs(m, g, im, st, l) :
        m \in {NoVariables, Variables(<<Item(Str_a, Str_x)>>),
               Variables(<<NonStrItem(Str_a)>>)},
        g \in {Raise("ClientError"),
               Return(Prompt_ok),
               Return(PromptData(Id_titan, Template_Q, Config_ok)),
               Return(PromptData(Id_claude, Template_Q, Config_bad)),
               Return(PromptData(Id_claude, <<>>, Config_ok)),
               Return([name |-> "prompt"])},
        im \in {Raise("ClientError"), Return(NotJson),
                Return(Json(Body_claude_hi)), Return(Json([content |-> <<>>]))},
        st \in {Raise("ClientError"), Return(EmptyDict),
                Return([body |-> <<Delta(Str_x)>>]),
                Return([body |-> <<Delta(Str_x), ChunkEvent(NotJson)>>])},
        l \in {Raise("ClientError"), Return([promptSummaries |-> <<>>])}}

Init ==
    \/ /\ Direct(SingleOps) \/ ViaTool(SingleOps)
       /\ NoBatch
       /\ inp \in OpsInputs
    \/ /\ Direct({"batch_invoke_prompt"}) \/ ViaTool({"batch_invoke_prompt"})
       /\ target = "batch_invoke_prompt"
       /\ BatchInputs

Spec == Init /\ [][Next]_vars

\* ---------------------------------------------- inputs of the classifier
MaxIdPieces == 2

\* Family markers in several spellings, and text that is no marker
IdPieces ==
    {<<"c", "l", "a", "u", "d", "e">>, <<"A", "N", "T", "H", "R", "O", "P", "I", "C">>,
     <<"T", "i", "t", "a", "n">>, <<"l", "L", "a", "M", "a">>, <<"m", "e", "t", "a">>,
     <<"M", "i", "s", "t", "r", "a", "l">>, <<"c", "o", "h", "e", "r", "e">>,
     <<"A", "I", "2", "1">>, <<"j", "u", "r", "a", "s", "s", "i", "c">>,
     <<"c", "l", "a", "u">>, <<".", "v", "1">>}

ClassifierIds == {Flatten(ps) : ps \in SeqsUpTo(IdPieces, MaxIdPieces)}

InitClassify ==
    /\ Direct({"invoke_prompt", "invoke_prompt_stream"})
    /\ NoBatch
    /\ inp \in {Inputs(Variables(<<Item(Str_a, Str_x)>>),
                       Return(PromptData(id, Template_Q, Config_ok)),
                       Return(Json(Body_claude_hi)),
                       Return([body |-> <<Delta(Str_x)>>]),
                       Return(EmptyDict)) :
                id \in ClassifierIds}

SpecClassify == InitClassify /\ [][NextInvoke]_vars

\* ------------------------------- invoke_prompt, with the streaming flag
\* invoke_prompt(..., stream=flag)
InitInvokePrompt ==
    /\ Direct({"invoke_prompt"})
    /\ NoBatch
    /\ inp \in {[stream |-> flag] @@ i : i \in OpsInputs, flag \in BOOLEAN}

SpecInvokePrompt == InitInvokePrompt /\ [][CallInvokePrompt]_vars

\* ----------------------------------- both invokers on the same inputs
InitResolve ==
    /\ Direct({"invoke_prompt", "invoke_prompt_stream"})
    /\ NoBatch
    /\ inp \in OpsInputs \cup
          {Inputs(Variables(<<Item(Str_a, Str_x)>>),
                  Return(pd),
                  Return(Json(Body_claude_hi)),
                  Return([body |-> <<Delta(Str_x)>>]),
                  Return(EmptyDict)) :
              pd \in PromptDefinitions}

SpecResolve == InitResolve /\ [][NextInvoke]_vars

\* ------------------------------------------ inputs of the request builders
\* The optional parameters of an inference configuration, with a value each
ParamValues ==
    [maxTokens |-> [n |-> 512000],
     temperature |-> [str_frac |-> 700],
     topP |-> [n |-> 900],
     stopSequences |-> <<"END">>]

\* Every configuration that supplies some of the parameters and not the rest
BuildConfigs == {[p \in S |-> ParamValues[p]] : S \in SUBSET DOMAIN ParamValues}

InitBuild ==
    /\ Direct({"invoke_prompt", "invoke_prompt_stream"})
    /\ NoBatch
    /\ inp \in {Inputs(Variables(<<Item(Str_a, Str_x)>>),
                       Return([name |-> "prompt",
                               defaultVariant |-> "variantOne",
                               variants |->
                                   <<[additionalModelRequestFields |-> af]
                                     @@ Variant("variantOne", id, Template_Q, cfg)>>]),
                       Return(Json(b)),
                       Return([body |-> <<ChunkEvent(Json(b))>>]),
                       Return(EmptyDict)) :
                id \in ModelIds, cfg \in BuildConfigs,
                af \in {[note |-> [n |-> 1000]], [top_k |-> [str_int |-> 5000]]},
                b \in {EmptyDict, [content |-> <<>>], [generation |-> Text_hi],
                       [content |-> <<[type |-> "text", text |-> Text_hi]>>]}}

SpecBuild == InitBuild /\ [][NextInvoke]_vars

\* ================================================================ claims
BatchReported ==
    /\ target = "batch_invoke_prompt"
    /\ pc \in {"returned", "tool_returned"}
    /\ ~out.raised
    /\ out.val.success

\* How many entries of the report's results and errors carry index k
IndexCount(k) ==
    Cardinality({i \in 1..Len(out.val.results) : out.val.results[i].index = k})
    + Cardinality({i \in 1..Len(out.val.errors) :
                      /\ "index" \in DOMAIN out.val.errors[i]
                      /\ out.val.errors[i].index = k})

\* Task j's own invoke_prompt call returned a success envelope.
TaskSucceeded(j) ==
    /\ futures[j] = "finished"
    /\ "result" \in DOMAIN outcome[j]
    /\ outcome[j].result.success

TaskFailed(i) == futures[i] = "finished" /\ ~outcome[i].success

InResults(j) ==
    \E k \in 1..Len(out.val.results) :
        /\ out.val.results[k].index = j - 1
        /\ out.val.results[k].variables = variable_sets[j]
        /\ out.val.results[k] = outcome[j]

\* C1: when batch_invoke_prompt returns a report for N variable sets, every
\* entry of results and errors carries an index, and the indices are exactly
\* 0..N-1, each once, whatever the tasks did (success, failing envelope,
\* exception in the task, timeout of the wait).
C1_IndexIntegrity ==
    BatchReported =>
        /\ \A k \in 0..(N - 1) : IndexCount(k) = 1
        /\ \A i \in 1..Len(out.val.errors) : "index" \in DOMAIN out.val.errors[i]

C4_ReturnAfterAllSettled ==
    (target = "batch_invoke_prompt" /\ pc \in {"returned", "tool_returned"}) =>
        /\ ~out.raised
        /\ \A i \in Tasks : futures[i] \in {"unsubmitted", "finished"}
        /\ out.val.success =>
              /\ \A i \in Tasks : futures[i] = "finished"
              /\ out.val.results = results
              /\ out.val.errors = errors
              /\ Len(results) + Len(errors) = N

\* A report returned after the wait on some task had timed out: that task
\* has finished all the same.
C4_Witness ==
    /\ BatchReported
    /\ N >= 2
    /\ timed_out # {}

\* C5 (as claimed): the batch as a whole fails exactly when the catalog
\* lookup for the shared prompt id fails.
C5_FailsIffLookupFails ==
    (target = "batch_invoke_prompt" /\ pc \in {"returned", "tool_returned"}) =>
        /\ ~out.raised
        /\ ~out.val.success <=> inp.get_prompt_resp.raised

\* C5 (amended): the batch as a whole fails exactly when its own code raises
\* outside the tasks, which here is when the concurrency limit is below 1 (the
\* pool cannot be created); a failed catalog lookup does not make it fail:
\* the lookup is made inside every task, and the report then has every task
\* in errors and none in results.
C5_FailsIffPoolFails ==
    (target = "batch_invoke_prompt" /\ pc \in {"returned", "tool_returned"}) =>
        /\ ~out.raised
        /\ ~out.val.success <=> max_workers <= 0
        /\ (out.val.success /\ inp.get_prompt_resp.raised) =>
              /\ Len(out.val.results) = 0
              /\ Len(out.val.errors) = N
              /\ out.val.failed = N

\* A report returned although the catalog does not know the prompt.
C5_Witness ==
    /\ BatchReported
    /\ inp.get_prompt_resp.raised
    /\ N >= 2
    /\ Len(out.val.errors) = N

\* --------------------------------------------------- the error boundary
\* The catalog call or the inference call of the operation that ran failed.
ExternalFailure ==
    CASE target = "get_prompt_details" -> inp.get_prompt_resp.raised
      [] target = "list_prompt_versions" -> inp.list_resp.raised
      [] target = "invoke_prompt" ->
            \/ inp.get_prompt_resp.raised
            \/ out.calls = 1 /\ inp.invoke_model_resp.raised
      [] target = "invoke_prompt_stream" ->
            \/ inp.get_prompt_resp.raised
            \/ out.calls = 1 /\ inp.stream_resp.raised
      [] OTHER -> FALSE

\* C3: every public operation (get_prompt_details, invoke_prompt,
\* invoke_prompt_stream, batch_invoke_prompt, list_prompt_versions, and
\* call_tool around them) returns a result for every input and every failure
\* of the catalog or inference call: nothing is raised to the caller, the
\* result is an envelope with a success field, a failing envelope carries an
\* error message, and a failed external call gives a failing envelope;
\* call_tool returns one text content holding the operation's envelope, or a
\* failing envelope of its own.
C3_EveryFailureIsAnEnvelope ==
    /\ (pc \in {"returned", "tool_returned"} /\ out # None) =>
          /\ ~out.raised
          /\ "success" \in DOMAIN out.val
          /\ ~out.val.success => "error" \in DOMAIN out.val
          /\ ExternalFailure => ~out.val.success
    /\ pc = "tool_returned" =>
          /\ ~tool_out.raised
          /\ tool_out.val.type = "text"
          /\ out # None => tool_out.val.text.json = out.val
          /\ out = None =>
                /\ ~tool_out.val.text.json.success
                /\ "error" \in DOMAIN tool_out.val.text.json

\* call_tool has returned the failing envelope of an invoke_prompt whose
\* inference call raised.
C3_Witness ==
    /\ pc = "tool_returned"
    /\ target = "invoke_prompt"
    /\ out # None
    /\ out.calls = 1
    /\ inp.invoke_model_resp.raised
    /\ ~out.val.success
    /\ tool_out.val.text.json = out.val

\* ------------------------------------------------------ response parsing
\* body[array] is absent or empty, or its first element has no `field`.
ArrayFieldMissing(body, array, field) ==
    \/ array \notin DOMAIN body
    \/ Len(body[array]) = 0
    \/ field \notin DOMAIN body[array][1]

\* The text field the family's parser expects, or the array that holds it,
\* is absent from the body, or that array is there and empty.
ExpectedMissing(model_id, body) ==
    LET model_type == get_model_type(model_id) IN
    CASE model_type = "titan" -> ArrayFieldMissing(body, "results", "outputText")
      [] model_type = "llama" -> "generation" \notin DOMAIN body
      [] model_type = "mistral" -> ArrayFieldMissing(body, "outputs", "text")
      [] model_type = "cohere" -> ArrayFieldMissing(body, "generations", "text")
      [] model_type = "ai21" ->
            \/ ArrayFieldMissing(body, "completions", "data")
            \/ "text" \notin DOMAIN body["completions"][1]["data"]
      [] OTHER -> ArrayFieldMissing(body, "content", "text")

\* C6: for every family and every response body in which the expected text
\* field or array is absent, or the array is empty, invoke_prompt returns
\* success=true with the empty completion (the parser returned "" and did not
\* raise).
C6_MissingFieldGivesEmptyCompletion ==
    (/\ pc = "returned"
     /\ target = "invoke_prompt"
     /\ ExpectedMissing(out.variant.modelId, inp.invoke_model_resp.val.json)) =>
        /\ ~out.raised
        /\ out.val.success
        /\ out.val.completion = ""

\* ------------------------------------------------------------ streaming
\* The event carries a chunk whose payload json.loads cannot decode.
Undecodable(event) == "chunk" \in DOMAIN event /\ ~event.chunk.bytes.valid

WellFormedEvents(events) == SelectSeq(events, LAMBDA e : ~Undecodable(e))

\* C7: when the stream of invoke_prompt_stream holds an event whose payload
\* cannot be decoded, the call returns success=true and its completion is the
\* text of all the well-formed events, before and after that event, in order.
C7_MalformedEventSkipped ==
    (/\ pc = "returned"
     /\ target = "invoke_prompt_stream"
     /\ \E i \in 1..Len(inp.stream_resp.val.body) :
           Undecodable(inp.stream_resp.val.body[i])) =>
        /\ ~out.raised
        /\ out.val.success
        /\ out.val.completion =
              StreamLoop([full_text |-> <<>>, chunks |-> <<>>],
                         WellFormedEvents(inp.stream_resp.val.body),
                         out.variant.modelId).val.full_text

\* ------------------------------------------------------------ rendering
\* The template was rendered (or rendering raised) in the call that returned.
Rendered == pc = "returned" /\ out.filled # None

RenderedTemplate == TemplateText(out.variant)
RenderedItems == Items(inp.prompt_variables)

AllStr(items) == \A i \in 1..Len(items) : items[i].is_str
MappedNames(items) == {items[i].name : i \in 1..Len(items)}

IsPrefix(old, s) == Len(s) >= Len(old) /\ SubSeq(s, 1, Len(old)) = old

\* One scan of the template, left to right: at a placeholder of a mapped
\* name ({{name}} before {name}) the value is written and the scan resumes
\* after the placeholder; any other character is copied.
RECURSIVE SinglePass(_, _)
SinglePass(s, items) ==
    IF Len(s) = 0 THEN <<>>
    ELSE LET dbl == {i \in 1..Len(items) : IsPrefix(DoubleBrace(items[i].name), s)}
             sgl == {i \in 1..Len(items) : IsPrefix(SingleBrace(items[i].name), s)}
         IN  IF dbl # {}
             THEN LET i == CHOOSE i \in dbl : TRUE IN
                  items[i].value
                  \o SinglePass(SubSeq(s, Len(DoubleBrace(items[i].name)) + 1, Len(s)), items)
             ELSE IF sgl # {}
             THEN LET i == CHOOSE i \in sgl : TRUE IN
                  items[i].value
                  \o SinglePass(SubSeq(s, Len(SingleBrace(items[i].name)) + 1, Len(s)), items)
             ELSE <<s[1]>> \o SinglePass(Tail(s), items)

\* Where `pattern` occurs in the template
Occurrences(template, pattern) ==
    {p \in 1..(Len(template) - Len(pattern) + 1) :
        SubSeq(template, p, p + Len(pattern) - 1) = pattern}

\* No character of the template's positions p..p+k-1 is left in ts.
Consumed(ts, p, k) == \A q \in 1..Len(ts) : ts[q].o \notin p..(p + k - 1)

\* The template's positions p..p+k-1 are in ts, side by side and in order.
KeptVerbatim(ts, p, k) ==
    \E q \in 1..(Len(ts) - k + 1) : \A i \in 0..(k - 1) : ts[q + i].o = p + i

\* C8: rendering is single-pass: text written as the value of a variable is
\* not matched again (by the single-brace replacement of the same variable,
\* or by the replacements of later variables), so the rendered text is the
\* template with each placeholder occurrence replaced by its variable's
\* value and the values unchanged.
C8_SinglePass ==
    (Rendered /\ ~out.filled.raised) =>
        Chars(out.filled.val) = SinglePass(RenderedTemplate, RenderedItems)

\* C9: for every template and every mapping of names to str values,
\* rendering does not raise; every occurrence of {{name}} and of {name} in
\* the template, for a mapped name, is gone from the output; every
\* occurrence of a placeholder of a name that is not mapped is in the output
\* verbatim; when no replacement matched inserted text, the output is the
\* template with each of those occurrences replaced by the value; and
\* invoke_prompt and invoke_prompt_stream render alike.
C9_RenderReplacesEveryMapped ==
    (Rendered /\ AllStr(RenderedItems)) =>
        /\ ~out.filled.raised
        /\ out.filled = Render(RenderedTemplate, inp.prompt_variables)
        /\ out.filled = RenderStream(RenderedTemplate, inp.prompt_variables)
        /\ \A n \in MappedNames(RenderedItems) :
              \A pattern \in {DoubleBrace(n), SingleBrace(n)} :
                 \A p \in Occurrences(RenderedTemplate, pattern) :
                    Consumed(out.filled.val, p, Len(pattern))
        /\ \A n \in VarNames \ MappedNames(RenderedItems) :
              \A pattern \in {DoubleBrace(n), SingleBrace(n)} :
                 \A p \in Occurrences(RenderedTemplate, pattern) :
                    KeptVerbatim(out.filled.val, p, Len(pattern))
        /\ ~RescansLoop(Tag(RenderedTemplate), RenderedItems) =>
              Chars(out.filled.val) = SinglePass(RenderedTemplate, RenderedItems)

\* invoke_prompt_stream has rendered "{{a}}{a}{b}" with a mapped to "x":
\* "xx{b}".
C9_Witness ==
    /\ Rendered
    /\ target = "invoke_prompt_stream"
    /\ RenderedTemplate = <<"{", "{", "a", "}", "}", "{", "a", "}", "{", "b", "}">>
    /\ RenderedItems = <<Item(Str_a, Str_x)>>
    /\ ~out.filled.raised
    /\ Chars(out.filled.val) = <<"x", "x", "{", "b", "}">>

\* ---------------------------------------------------- variant selection
\* C10: in invoke_prompt and invoke_prompt_stream, when some variant has the
\* definition's default name (defaultVariant, "variantOne" when the
\* definition gives none), the first such variant is selected and used;
\* otherwise, when the list is not empty, its first variant is; when the list
\* is empty the operation returns the no-variant error and has made no
\* inference call.
C10_VariantSelection ==
    (/\ pc = "returned"
     /\ target \in {"invoke_prompt", "invoke_prompt_stream"}
     /\ ~inp.get_prompt_resp.raised) =>
        LET prompt_data == inp.get_prompt_resp.val
            variants == Get(prompt_data, "variants", <<>>)
            default_name == Get(prompt_data, "defaultVariant", "variantOne")
            named == {i \in 1..Len(variants) : variants[i].name = default_name}
        IN  /\ ~out.raised
            /\ \A i \in named :
                  (\A j \in named : i <= j) => out.variant = variants[i]
            /\ (named = {} /\ Len(variants) > 0) => out.variant = variants[1]
            /\ Len(variants) > 0 =>
                  /\ out.calls = 1
                  /\ out.val.success
                  /\ out.val.model_id = out.variant.modelId
            /\ Len(variants) = 0 =>
                  /\ ~out.val.success
                  /\ out.val.error = "No variant found in prompt"
                  /\ out.calls = 0

\* invoke_prompt_stream has selected the second of three variants: the
\* first that has the default name, and not the first of the list.
C10_Witness ==
    /\ pc = "returned"
    /\ target = "invoke_prompt_stream"
    /\ ~inp.get_prompt_resp.raised
    /\ "defaultVariant" \in DOMAIN inp.get_prompt_resp.val
    /\ inp.get_prompt_resp.val.defaultVariant = "v2"
    /\ Len(inp.get_prompt_resp.val.variants) = 3
    /\ inp.get_prompt_resp.val.variants[1].name = "v3"
    /\ inp.get_prompt_resp.val.variants[2].name = "v2"
    /\ inp.get_prompt_resp.val.variants[3].name = "v2"
    /\ out.variant = inp.get_prompt_resp.val.variants[2]
    /\ out.val.model_id = Id_titan

\* ------------------------------------------------------- classification
\* The fixed priority order of the families, each with its markers
FamilyMarkers ==
    <<[family |-> "claude", markers |-> {"claude", "anthropic"}],
      [family |-> "titan", markers |-> {"titan"}],
      [family |-> "llama", markers |-> {"llama", "meta"}],
      [family |-> "mistral", markers |-> {"mistral"}],
      [family |-> "cohere", markers |-> {"cohere"}],
      [family |-> "ai21", markers |-> {"ai21", "jurassic"}]>>

\* The characters of a marker
MarkerChars(marker) ==
    CASE marker = "claude" -> <<"c", "l", "a", "u", "d", "e">>
      [] marker = "anthropic" -> <<"a", "n", "t", "h", "r", "o", "p", "i", "c">>
      [] marker = "titan" -> <<"t", "i", "t", "a", "n">>
      [] marker = "llama" -> <<"l", "l", "a", "m", "a">>
      [] marker = "meta" -> <<"m", "e", "t", "a">>
      [] marker = "mistral" -> <<"m", "i", "s", "t", "r", "a", "l">>
      [] marker = "cohere" -> <<"c", "o", "h", "e", "r", "e">>
      [] marker = "ai21" -> <<"a", "i", "2", "1">>
      [] marker = "jurassic" -> <<"j", "u", "r", "a", "s", "s", "i", "c">>

SameLetter(c, d) ==
    \/ c = d
    \/ \E i \in 1..26 : {c, d} = {UpperLetters[i], LowerLetters[i]}

\* The marker occurs in the identifier, the case of the letters ignored.
OccursIgnoringCase(marker, id) ==
    LET m == MarkerChars(marker) IN
    \E i \in 1..(Len(id) - Len(m) + 1) :
        \A j \in 1..Len(m) : SameLetter(id[i + j - 1], m[j])

FamilyOccurs(k, id) == \E marker \in FamilyMarkers[k].markers : OccursIgnoringCase(marker, id)

\* C11: get_model_type gives every identifier exactly one tag: the first
\* family, in the order claude, titan, llama, mistral, cohere, ai21, one of
\* whose markers occurs in the identifier whatever the case of its letters,
\* and "unknown" when no marker occurs; the same identifier always gets the
\* same tag.
C11_FirstFamilyInOrder ==
    (pc = "returned" /\ target \in {"invoke_prompt", "invoke_prompt_stream"}) =>
        LET id == out.variant.modelId
            families == {k \in 1..Len(FamilyMarkers) : FamilyOccurs(k, id)}
        IN  /\ ~out.raised
            /\ out.val.success
            /\ out.val.model_type = get_model_type(id)
            /\ out.val.model_type \in
                  {"claude", "titan", "llama", "mistral", "cohere", "ai21", "unknown"}
            /\ families = {} => out.val.model_type = "unknown"
            /\ \A k \in families :
                  (\A l \in families : k <= l) =>
                      out.val.model_type = FamilyMarkers[k].family

\* "metaTitan", which holds a marker of llama and, later in the text but
\* earlier in the order, one of titan, is classified titan.
C11_Witness ==
    /\ pc = "returned"
    /\ target = "invoke_prompt"
    /\ out.variant.modelId = <<"m", "e", "t", "a", "T", "i", "t", "a", "n">>
    /\ out.val.model_type = "titan"

\* ------------------------------------------------------- invoke_prompt
InvokePromptReturned == pc = "returned" /\ target = "invoke_prompt"

\* C12: invoke_prompt called with the streaming flag set is rejected for
\* every prompt definition and variable mapping: the result has
\* success=false and the inference endpoint has not been called; when
\* nothing else failed first, the error is the streaming rejection.
C12_StreamingFlagRejected ==
    (InvokePromptReturned /\ Get(inp, "stream", FALSE)) =>
        /\ ~out.raised
        /\ ~out.val.success
        /\ out.calls = 0
        /\ (/\ out.filled # None
            /\ ~out.filled.raised
            /\ ~build_request_body(
                    Get(out.variant, "modelId", <<>>), Chars(out.filled.val),
                    InferenceConfig(out.variant),
                    Get(out.variant, "additionalModelRequestFields", EmptyDict)).raised) =>
              out.val.error = "Streaming requires use of invoke_prompt_stream tool"

\* invoke_prompt with the flag set has resolved the prompt, rendered the
\* template and returned the streaming rejection.
C12_Witness ==
    /\ InvokePromptReturned
    /\ inp.stream
    /\ out.filled # None
    /\ ~out.filled.raised
    /\ out.val.error = "Streaming requires use of invoke_prompt_stream tool"
    /\ out.calls = 0

\* C16: invoke_prompt looks the prompt up, selects the variant, checks the
\* template, renders, builds, calls, parses, in this order: a result with
\* success=true comes after exactly one call of the inference endpoint, made
\* with a selected variant and a rendered template; a failed lookup, a
\* definition with no variant and a variant with an empty template each end
\* the operation with their error and with no call of the endpoint.
C16_OneCallOnSuccessNoneOnEarlyFailure ==
    InvokePromptReturned =>
        /\ ~out.raised
        /\ out.calls \in {0, 1}
        /\ out.val.success => out.calls = 1
        /\ out.calls = 1 =>
              /\ ~Falsy(out.variant)
              /\ Len(TemplateText(out.variant)) > 0
              /\ out.filled # None
              /\ ~out.filled.raised
        /\ out.filled # None => (~Falsy(out.variant) /\ Len(TemplateText(out.variant)) > 0)
        /\ inp.get_prompt_resp.raised =>
              /\ ~out.val.success
              /\ out.val.error = inp.get_prompt_resp.exc
              /\ out.calls = 0
              /\ out.variant = None
        /\ (~inp.get_prompt_resp.raised
              /\ Len(Get(inp.get_prompt_resp.val, "variants", <<>>)) = 0) =>
              /\ ~out.val.success
              /\ out.val.error = "No variant found in prompt"
              /\ out.calls = 0
              /\ out.filled = None
        /\ (~inp.get_prompt_resp.raised
              /\ ~Falsy(out.variant)
              /\ Len(TemplateText(out.variant)) = 0) =>
              /\ ~out.val.success
              /\ out.val.error = "No template text found in prompt"
              /\ out.calls = 0
              /\ out.filled = None

\* invoke_prompt has returned success=true after one call of the endpoint.
C16_Witness ==
    /\ InvokePromptReturned
    /\ out.val.success
    /\ out.calls = 1
    /\ out.val.completion = "hi"

\* ------------------------------------------------- stream accumulation
StreamSucceeded ==
    /\ pc = "returned"
    /\ target = "invoke_prompt_stream"
    /\ ~out.raised
    /\ out.val.success

StreamEvents == Get(inp.stream_resp.val, "body", <<>>)

\* The chunks that one event, taken alone, gives
EventChunks(event, model_id) ==
    StreamEvent([full_text |-> <<>>, chunks |-> <<>>], event, model_id).val.chunks

\* C13: when invoke_prompt_stream returns success=true, completion is the
\* concatenation of the entries of chunks in list order, chunk_count is the
\* length of chunks, and chunks holds what each event gave, in the order the
\* events arrived, nothing reordered, dropped or duplicated.
C13_CompletionIsChunksInOrder ==
    StreamSucceeded =>
        /\ out.val.completion = Flatten(out.val.chunks)
        /\ out.val.chunk_count = Len(out.val.chunks)
        /\ out.val.chunks =
              Flatten([i \in 1..Len(StreamEvents) |->
                          EventChunks(StreamEvents[i], out.variant.modelId)])

\* A claude stream of the deltas "a", "b", "a": three chunks, completion
\* "aba".
C13_Witness ==
    /\ StreamSucceeded
    /\ get_model_type(out.variant.modelId) = "claude"
    /\ Len(StreamEvents) = 3
    /\ out.val.chunks = <<Str_a, Str_b, Str_a>>
    /\ out.val.completion = <<"a", "b", "a">>
    /\ out.val.chunk_count = 3

\* ------------------------------------------------- per-event decoding
\* What the event carries: the decoded payload of its chunk
Payload(event) == event.chunk.bytes.json

\* What an event contributes, by family: for claude the delta text of a
\* content_block_delta, for titan the outputText, when not empty; for any
\* other family the stringified payload.
FamilyChunks(payload, family) ==
    CASE family = "claude" ->
            IF /\ "type" \in DOMAIN payload
               /\ payload.type = "content_block_delta"
               /\ "delta" \in DOMAIN payload
               /\ "text" \in DOMAIN payload.delta
               /\ Len(payload.delta.text) > 0
            THEN <<payload.delta.text>> ELSE <<>>
      [] family = "titan" ->
            IF "outputText" \in DOMAIN payload /\ Len(payload.outputText) > 0
            THEN <<payload.outputText>> ELSE <<>>
      [] OTHER -> <<(<<ToString(payload)>>)>>

\* As claimed: every event contributes by the family's rule; one that has
\* no chunk is itself what is stringified.
ClaimedChunks(event, family) ==
    IF "chunk" \in DOMAIN event THEN FamilyChunks(Payload(event), family)
    ELSE IF family \in {"claude", "titan"} THEN <<>>
    ELSE <<(<<ToString(event)>>)>>

\* As the code does: an event that has no chunk contributes nothing.
DecodedChunks(event, family) ==
    IF "chunk" \in DOMAIN event THEN FamilyChunks(Payload(event), family)
    ELSE <<>>

\* C18 (as claimed): decoding depends only on the family: claude events
\* contribute their non-empty content_block_delta text, titan events their
\* non-empty outputText, and for every other family every event contributes
\* exactly one chunk, the stringified event.
C18_EveryEventOneChunk ==
    StreamSucceeded =>
        out.val.chunks =
            Flatten([i \in 1..Len(StreamEvents) |->
                        ClaimedChunks(StreamEvents[i],
                                      get_model_type(out.variant.modelId))])

\* C18 (amended): decoding depends only on the family: claude events
\* contribute their non-empty content_block_delta text, titan events their
\* non-empty outputText, and for every other family every event that carries
\* a chunk contributes exactly one chunk, the stringified decoded payload of
\* the chunk; an event that carries no chunk contributes nothing, whatever
\* the family.
C18_EveryChunkEventByFamily ==
    StreamSucceeded =>
        out.val.chunks =
            Flatten([i \in 1..Len(StreamEvents) |->
                        DecodedChunks(StreamEvents[i],
                                      get_model_type(out.variant.modelId))])

\* A stream for a model of no known family: a chunk event, an event with no
\* chunk, a chunk event; two chunks.
C18_Witness ==
    /\ StreamSucceeded
    /\ get_model_type(out.variant.modelId) = "unknown"
    /\ Len(StreamEvents) = 3
    /\ "chunk" \in DOMAIN StreamEvents[1]
    /\ "chunk" \notin DOMAIN StreamEvents[2]
    /\ "chunk" \in DOMAIN StreamEvents[3]
    /\ out.val.chunk_count = 2
    /\ out.val.chunks = <<Str(Payload(StreamEvents[1])), Str(Payload(StreamEvents[3]))>>

\* ------------------------------------------------- the pool of a batch
\* The tasks that are executing invoke_single
Running == {i \in Tasks : futures[i] = "running"}

BatchReturned == target = "batch_invoke_prompt" /\ pc \in {"returned", "tool_returned"}

\* C14: at every moment of a batch_invoke_prompt call at most max_workers
\* tasks are executing invoke_prompt; for a limit within the contract (at
\* least 1) the variable sets are submitted in list order, one task each,
\* task i with index i and the i-th mapping, and all N are submitted before
\* the first result is collected.  (Below 1 the pool is not created: no task
\* is submitted and the call returns a failing envelope.)
C14_BoundedAndAllSubmittedWhenPooled ==
    /\ Cardinality(Running) <= max_workers
    /\ Len(futures) = N
    /\ pc = "submit" =>
          \A i \in Tasks : (futures[i] # "unsubmitted") <=> (i <= cursor)
    /\ (pc = "collect" \/ (BatchReturned /\ max_workers >= 1)) =>
          \A i \in Tasks : futures[i] # "unsubmitted"
    /\ \A i \in Tasks :
          futures[i] = "finished" =>
              /\ outcome[i].index = i - 1
              /\ outcome[i].variables = variable_sets[i]
    /\ (BatchReturned /\ max_workers < 1) =>
          /\ \A i \in Tasks : futures[i] = "unsubmitted"
          /\ ~out.val.success

\* Three tasks and a limit of two: two are executing and the third waits in
\* the pool's queue.
C14_Witness ==
    /\ target = "batch_invoke_prompt"
    /\ N = 3
    /\ max_workers = 2
    /\ Cardinality(Running) = 2
    /\ \E i \in Tasks : futures[i] = "pending"

\* C15: a task that never finishes does not keep batch_invoke_prompt from
\* returning: once the wait on every future has ended, by a result or by the
\* 120-second timeout, the report can be returned.
C15_ReturnNotBlockedAfterTimeouts ==
    (target = "batch_invoke_prompt" /\ pc = "collect" /\ cursor = N) =>
        ENABLED BatchReturn

\* ------------------------------------------- resolution, both invokers
\* What the two operations return for the inputs of this call
ByInvokePrompt ==
    invoke_prompt(inp.prompt_identifier, inp.prompt_variables, FALSE,
                  inp.get_prompt_resp, inp.invoke_model_resp)
ByInvokePromptStream ==
    invoke_prompt_stream(inp.prompt_identifier, inp.prompt_variables,
                         inp.get_prompt_resp, inp.stream_resp)

\* The request handed to the inference call, from what was resolved
RequestOf(o) ==
    [modelId |-> Get(o.variant, "modelId", <<>>),
     body |-> build_request_body(
                  Get(o.variant, "modelId", <<>>), Chars(o.filled.val),
                  InferenceConfig(o.variant),
                  Get(o.variant, "additionalModelRequestFields", EmptyDict))]

\* C17: for the same prompt definition and variable mapping, invoke_prompt
\* and invoke_prompt_stream resolve alike: either both return before any
\* inference call with the same failing envelope, or both select the same
\* variant, render the same text and hand the same model id and request
\* body to their inference call.
C17_SameResolution ==
    (pc = "returned" /\ target \in {"invoke_prompt", "invoke_prompt_stream"}) =>
        /\ ~ByInvokePrompt.raised
        /\ ~ByInvokePromptStream.raised
        /\ out = IF target = "invoke_prompt" THEN ByInvokePrompt ELSE ByInvokePromptStream
        /\ ByInvokePrompt.calls = ByInvokePromptStream.calls
        /\ ByInvokePrompt.variant = ByInvokePromptStream.variant
        /\ ByInvokePrompt.filled = ByInvokePromptStream.filled
        /\ ByInvokePrompt.calls = 0 =>
              /\ ~ByInvokePrompt.val.success
              /\ ByInvokePrompt.val = ByInvokePromptStream.val
        /\ ByInvokePrompt.calls = 1 =>
              /\ ~RequestOf(ByInvokePrompt).body.raised
              /\ RequestOf(ByInvokePrompt) = RequestOf(ByInvokePromptStream)
        /\ (ByInvokePrompt.val.success /\ ByInvokePromptStream.val.success) =>
              /\ ByInvokePrompt.val.model_id = ByInvokePromptStream.val.model_id
              /\ ByInvokePrompt.val.model_type = ByInvokePromptStream.val.model_type

\* invoke_prompt_stream has called its endpoint for the second of three
\* variants, the one invoke_prompt selects too.
C17_Witness ==
    /\ pc = "returned"
    /\ target = "invoke_prompt_stream"
    /\ out.calls = 1
    /\ ~inp.get_prompt_resp.raised
    /\ Len(Get(inp.get_prompt_resp.val, "variants", <<>>)) = 3
    /\ out.variant = inp.get_prompt_resp.val.variants[2]
    /\ ByInvokePrompt.calls = 1
    /\ ByInvokePrompt.variant = out.variant

\* ------------------------------------------- the unknown family's adapter
ResolvedModelId == Get(out.variant, "modelId", <<>>)

\* C19: for a model id classified as unknown, the request built is exactly
\* what the claude builder gives for the same text, configuration and
\* additional fields, and the completion parsed from a response body is
\* exactly what the claude parser gives for that body (its failure
\* included).
C19_UnknownUsesClaudeAdapter ==
    (/\ pc = "returned"
     /\ target \in {"invoke_prompt", "invoke_prompt_stream"}
     /\ out.filled # None
     /\ get_model_type(ResolvedModelId) = "unknown") =>
        /\ ~out.filled.raised
        /\ RequestOf(out).body =
              build_request_body_claude(
                  Chars(out.filled.val), InferenceConfig(out.variant),
                  Get(out.variant, "additionalModelRequestFields", EmptyDict))
        /\ (target = "invoke_prompt" /\ out.calls = 1) =>
              LET response_body == inp.invoke_model_resp.val.json
                  by_claude == parse_response_claude(response_body)
              IN  /\ parse_model_response(ResolvedModelId, response_body) = by_claude
                  /\ out.val.success = ~by_claude.raised
                  /\ out.val.success => out.val.completion = by_claude.val

\* An unknown model id whose response carries a claude-shaped completion,
\* with top_k and stop sequences in the request.
C19_Witness ==
    /\ pc = "returned"
    /\ target = "invoke_prompt"
    /\ out.calls = 1
    /\ ResolvedModelId = Id_unknown
    /\ out.val.success
    /\ out.val.completion = Text_hi
    /\ Get(RequestOf(out).body.val, "top_k", 0) = 5
    /\ "stop_sequences" \in DOMAIN RequestOf(out).body.val

\* -------------------------------------------- parameters not supplied
\* The request field each family gives a parameter of the configuration
RequestFields(model_type) ==
    CASE model_type = "titan" ->
            [maxTokens |-> "maxTokenCount", temperature |-> "temperature",
             topP |-> "topP", stopSequences |-> "stopSequences"]
      [] model_type = "llama" ->
            [maxTokens |-> "max_gen_len", temperature |-> "temperature",
             topP |-> "top_p"]
      [] model_type = "mistral" ->
            [maxTokens |-> "max_tokens", temperature |-> "temperature",
             topP |-> "top_p", stopSequences |-> "stop"]
      [] model_type = "cohere" ->
            [maxTokens |-> "max_tokens", temperature |-> "temperature",
             topP |-> "p", stopSequences |-> "stop_sequences"]
      [] model_type = "ai21" ->
            [maxTokens |-> "maxTokens", temperature |-> "temperature",
             topP |-> "topP", stopSequences |-> "stopSequences"]
      [] OTHER ->
            [maxTokens |-> "max_tokens", temperature |-> "temperature",
             topP |-> "top_p", stopSequences |-> "stop_sequences"]

\* The parameters a request of that family carries a field for
SentParams(request_body, model_type) ==
    LET fields == RequestFields(model_type)
        holder == IF model_type = "titan"
                  THEN request_body.textGenerationConfig
                  ELSE request_body
    IN  {p \in DOMAIN fields : fields[p] \in DOMAIN holder}

\* C20 (as claimed): whenever a request reaches the inference call, it
\* carries no field for a parameter the variant's inference configuration
\* does not supply.
C20_MissingParameterOmitted ==
    (/\ pc = "returned"
     /\ target \in {"invoke_prompt", "invoke_prompt_stream"}
     /\ out.calls = 1) =>
        SentParams(RequestOf(out).body.val, get_model_type(ResolvedModelId))
            \subseteq DOMAIN InferenceConfig(out.variant)

====
